---- MODULE Spec2Model ----
(***************************************************************************)
(* A model of two parts of the reservoir indexer:                          *)
(*                                                                         *)
(*  - OnchainMetadataProcessUriJob (jobs/.../onchain-metadata-process-uri  *)
(*    job), a RabbitMQ job handler that drains the pending list of tokens  *)
(*    whose on-chain URI must be fetched, together with the job runtime    *)
(*    it extends (AbstractRabbitMqJobHandler) and the pending list         *)
(*    (PendingFetchOnchainUriTokens).  The handler is in the sources; the  *)
(*    runtime and the list are not, and are modelled from the design       *)
(*    document (sections 4.1, 4.2 and 6).                                  *)
(*                                                                         *)
(*  - extractByTx (orderbook/mints/calldata/detector/generic), the         *)
(*    heuristic decoder of unknown mint calldata.                          *)
(***************************************************************************)
EXTENDS Integers, Sequences, FiniteSets, Bags, TLC

VARIABLES
    ledger,     \* PendingFetchOnchainUriTokens: number of tokens in the list
    queue,      \* bag of messages of metadata-index-onchain-process-uri-queue
    running,    \* bag of executions of the handler that are in progress
    last,       \* the execution that ended last (NoExec before the first)
    stats,      \* counters of what happened so far
    dec,        \* the decoder: one call of extractByTx and its result
    store,      \* the stored mint configurations, in the order they are loaded
    ref,        \* one call of refreshByCollection
    swap        \* one call of a swap function of SwapModule

vars == <<ledger, queue, running, last, stats, dec, store, ref, swap>>

jobVars == <<ledger, queue, running, last, stats>>

(***************************************************************************)
(* Bounds of the model.                                                    *)
(***************************************************************************)
\* SpecDrain starts with any number of tokens up to this one
MaxItems == 120
\* Spec and SpecBurst start with no tokens or with this many (four batches)
MaxLedger == 170
\* external submissions of the job under Spec
MaxSubmits == 2
\* external submissions of the job under SpecBurst
MaxBurst == 4
\* executions the URI resolver throttles
MaxThrottles == 1
\* executions the URI resolver fails otherwise
MaxFails == 4

\* the tokens pending at the start of a drain that outlasts the retries of one
\* message: more than four batches
MaxBacklog == 210

\* the submissions callers make in such a drain
MaxLiveSubmits == 1

(***************************************************************************)
(* The configuration of OnchainMetadataProcessUriJob.                      *)
(***************************************************************************)
\* variant: one retry more than configured
maxRetriesPlusOne == 3 + 1

maxRetries == 3

\* variant: one worker more than configured
concurrencyPlusOne == 3 + 1

concurrency == 3

\* variant: the other backoff kind
backoffTypeFixed == "fixed"

backoffType == "exponential"

backoffDelay == 20000

\* const count = 50, the number of tokens one execution fetches
count == 50

\* process returns undefined (a bare return); its other results are 0 and 1
Undefined == 0 - 1

\* the delays a RequestWasThrottledError may carry
ThrottleDelays == {0, 5000}

\* the job ids a caller may submit under; NoKey: a message without a job id
NoKey == "none"

DedupKeys == {"k1"}

\* the numbers of tokens Spec starts with
LedgerSizes == {0, MaxLedger}

Min(a, b) == IF a < b THEN a ELSE b

RECURSIVE Pow2(_)
Pow2(n) == IF n <= 0 THEN 1 ELSE 2 * Pow2(n - 1)

(***************************************************************************)
(* RetrySchedule.nextDelay(attempt, policy): Exhausted past maxRetries,    *)
(* the base delay under fixed backoff, base * 2^(attempt-1) under          *)
(* exponential backoff.                                                    *)
(***************************************************************************)
Exhausted == [kind |-> "exhausted"]

Duration(ms) == [kind |-> "delay", ms |-> ms]

nextDelay(attempt) ==
    IF attempt > maxRetries THEN Exhausted
    ELSE IF backoffType = "fixed" THEN Duration(backoffDelay)
    ELSE Duration(backoffDelay * Pow2(attempt - 1))

(***************************************************************************)
(* Messages and executions.  A message carries its attempt number (from 1),*)
(* the delay it was sent with, its job id, whether the delay has elapsed,  *)
(* and how often it has been delivered so far.                             *)
(***************************************************************************)
Message(attempt, delay, key, execs) ==
    [attempt |-> attempt, delay |-> delay, key |-> key,
     ready |-> (delay = 0), execs |-> execs]

\* a bulk submission of tokens to onchainMetadataIndexProcessJob
Bulk(tokens) == [made |-> TRUE, tokens |-> tokens]

\* no bulk submission to onchainMetadataIndexProcessJob was made
NoBulk == [made |-> FALSE, tokens |-> <<>>]

\* what is kept of an execution that ended: how it ended and what it sent
Finished(e, pc, sent) ==
    [pc |-> pc, attempt |-> e.msg.attempt, batch |-> e.batch, ret |-> e.ret,
     delay |-> e.delay, outcome |-> e.outcome, bulk |-> e.bulk, sent |-> sent]

NoExec ==
    [pc |-> "none", attempt |-> 0, batch |-> 0, ret |-> Undefined, delay |-> 0,
     outcome |-> "none", bulk |-> NoBulk, sent |-> EmptyBag]

One(x) == SetToBag({x})

Msgs == BagToSet(queue)

Execs == BagToSet(running)

\* a job with this id is pending or executing
InFlight(key) ==
    \/ \E m \in Msgs : m.key = key
    \/ \E e \in Execs : e.msg.key = key

\* variant: no deduplication
IsDuplicateNever(key) == FALSE

IsDuplicate(key) == key # NoKey /\ InFlight(key)

\* this.send(job, delay): a new message, first attempt; no-op for a duplicate
send(q, key, delay) ==
    IF IsDuplicate(key) THEN q ELSE q (+) One(Message(1, delay, key, 0))

\* variant: two messages for one call
addToQueueTwice(q, delay) == send(send(q, NoKey, delay), NoKey, delay)

\* addToQueue(delay = 0): this.send({}, delay), a message without a job id
addToQueue(q, delay) == send(q, NoKey, delay)

\* an execution e moves on to e2
Step(e, e2) == running' = (running (-) One(e)) (+) One(e2)

Bump(field) == stats' = [stats EXCEPT ![field] = @ + 1]

(***************************************************************************)
(* The runtime: submission, delay, delivery, retry.                        *)
(***************************************************************************)
\* a caller submits the job: addToQueue() for NoKey, send with a job id otherwise
Submit(key, max) ==
    /\ stats.submits < max
    /\ queue' = send(queue, key, 0)
    /\ stats' = [stats EXCEPT !.submits = @ + 1,
                              !.dropped = IF IsDuplicate(key) THEN @ + 1 ELSE @]
    /\ UNCHANGED <<ledger, running, last, dec, store, ref, swap>>

\* the delay of a message elapses
DelayElapsed(m) ==
    /\ ~m.ready
    /\ queue' = (queue (-) One(m)) (+) One([m EXCEPT !.ready = TRUE])
    /\ UNCHANGED <<ledger, running, last, stats, dec, store, ref, swap>>

\* a free worker takes a message whose delay has elapsed
Deliver(m) ==
    /\ m.ready
    /\ BagCardinality(running) < concurrency
    /\ queue' = queue (-) One(m)
    /\ running' = running (+)
           One([msg |-> [m EXCEPT !.execs = @ + 1], pc |-> "get", batch |-> 0,
                results |-> <<>>, ret |-> Undefined, delay |-> 0, outcome |-> "none",
                bulk |-> NoBulk, sent |-> EmptyBag])
    /\ UNCHANGED <<ledger, last, stats, dec, store, ref, swap>>

\* process threw: retry with backoff while attempts are left, else give up
OnFailed(e) ==
    /\ e.pc = "threw"
    /\ running' = running (-) One(e)
    /\ IF nextDelay(e.msg.attempt).kind = "delay"
       THEN /\ queue' = queue (+) One(Message(e.msg.attempt + 1,
                                nextDelay(e.msg.attempt).ms, e.msg.key, e.msg.execs))
            /\ stats' = stats
       ELSE /\ queue' = queue
            /\ Bump("exhausted")
    /\ last' = Finished(e, "threw", queue' (-) queue)
    /\ UNCHANGED <<ledger, dec, store, ref, swap>>

(***************************************************************************)
(* PendingFetchOnchainUriTokens.                                           *)
(***************************************************************************)
\* get(count) takes up to count tokens off the list
get(n) == Min(n, ledger)

\* len()
len == ledger

(***************************************************************************)
(* OnchainMetadataProcessUriJob.process, one action per await.             *)
(***************************************************************************)
\* variant: the batch is never taken for empty
isEmptyNever(fetchTokens) == FALSE

\* _.isEmpty(fetchTokens), of a batch of fetchTokens tokens
isEmpty(fetchTokens) == fetchTokens = 0

\* fetchTokens = await PendingFetchOnchainUriTokens.get(count); return when empty
Get(e) ==
    /\ e.pc = "get"
    /\ ledger' = ledger - get(count)
    /\ Step(e, [e EXCEPT !.batch = get(count),
                         !.pc = IF isEmpty(get(count)) THEN "completed" ELSE "resolve",
                         !.outcome = IF isEmpty(get(count)) THEN "empty" ELSE "none"])
    /\ UNCHANGED <<queue, last, stats, dec, store, ref, swap>>

\* one result of _getTokensMetadataUri: the token (its place in the batch)
\* and its uri, "" when none was found
Result(tokenId, uri) == [tokenId |-> tokenId, uri |-> uri]

\* _getTokensMetadataUri returned results
ResolveOk(e, results) ==
    /\ e.pc = "resolve"
    /\ Step(e, [e EXCEPT !.results = results, !.pc = "forward"])
    /\ UNCHANGED <<ledger, queue, last, stats, dec, store, ref, swap>>

\* variant: re-submission without the delay of the error
ThrottledQueueNoDelay(q, d) == addToQueue(q, 0)

\* the catch branch of a RequestWasThrottledError carrying delay d:
\* await this.addToQueue(e.delay)
ThrottledQueue(q, d) == addToQueue(q, d)

\* _getTokensMetadataUri threw RequestWasThrottledError with delay d
ResolveThrottled(e, d) ==
    /\ e.pc = "resolve"
    /\ stats.throttles < MaxThrottles
    /\ queue' = ThrottledQueue(queue, d)
    /\ Step(e, [e EXCEPT !.pc = "completed", !.delay = d, !.outcome = "throttled",
                         !.sent = @ (+) (queue' (-) queue)])
    /\ Bump("throttles")
    /\ UNCHANGED <<ledger, last, dec, store, ref, swap>>

\* variant: the catch branch re-submits the job for every error
ResolveFailedRequeues(e) ==
    /\ e.pc = "resolve"
    /\ stats.fails < MaxFails
    /\ queue' = addToQueue(queue, 0)
    /\ Step(e, [e EXCEPT !.pc = "completed", !.outcome = "failed",
                         !.sent = @ (+) (queue' (-) queue)])
    /\ Bump("fails")
    /\ UNCHANGED <<ledger, last, dec, store, ref, swap>>

\* _getTokensMetadataUri threw another error: process rethrows it
ResolveFailed(e) ==
    /\ e.pc = "resolve"
    /\ stats.fails < MaxFails
    /\ Step(e, [e EXCEPT !.pc = "threw", !.outcome = "failed"])
    /\ Bump("fails")
    /\ UNCHANGED <<ledger, queue, last, dec, store, ref, swap>>

\* variant: every result is kept
tokensToProcessAll(results) == results

\* results.forEach: the results with a uri, in their order
tokensToProcess(results) == SelectSeq(results, LAMBDA result : result.uri # "")

\* addToQueueBulk(tokensToProcess): the results with a uri go to
\* onchainMetadataIndexProcessJob in one bulk submission; stats.handled counts
\* the results that went through results.forEach, forwarded or logged
Forward(e) ==
    /\ e.pc = "forward"
    /\ Step(e, [e EXCEPT !.pc = "len", !.bulk = Bulk(tokensToProcess(e.results))])
    /\ stats' = [stats EXCEPT !.handled = @ + Len(e.results)]
    /\ UNCHANGED <<ledger, queue, last, dec, store, ref, swap>>

\* variant: never asks for another execution
ContinuationNever == IF len > 0 THEN 0 ELSE 0

\* variant: always asks for another execution
ContinuationAlways == IF len >= 0 THEN 1 ELSE 0

\* return 1 when the list still holds tokens, 0 otherwise
Continuation == IF len > 0 THEN 1 ELSE 0

CheckLen(e) ==
    /\ e.pc = "len"
    /\ Step(e, [e EXCEPT !.ret = Continuation, !.pc = "completed", !.outcome = "ok"])
    /\ UNCHANGED <<ledger, queue, last, stats, dec, store, ref, swap>>

\* variant: undefined counts as a result
TruthyUndefined(r) == r # 0

\* if (processResult): a number other than 0
Truthy(r) == r # Undefined /\ r # 0

\* variant: re-submission without delay
CompletedDelayZero(r) == 0

\* the delay onCompleted re-submits with
CompletedDelay(r) == r * 1000

\* onCompleted(rabbitMqMessage, processResult)
OnCompleted(e) ==
    /\ e.pc = "completed"
    /\ running' = running (-) One(e)
    /\ queue' = IF Truthy(e.ret) THEN addToQueue(queue, CompletedDelay(e.ret))
                 ELSE queue
    /\ last' = Finished(e, "done", e.sent (+) (queue' (-) queue))
    /\ Bump("execs")
    /\ UNCHANGED <<ledger, dec, store, ref, swap>>

(***************************************************************************)
(* Specifications of the job.                                              *)
(***************************************************************************)
\* extractByTx is not being called
DecIdle == [pc |-> "idle"]

\* refreshByCollection is not being called
RefIdle == [pc |-> "idle"]

\* no swap function of SwapModule is being called
SwapIdle == [pc |-> "idle"]

Stats0 ==
    [submits |-> 0, dropped |-> 0, throttles |-> 0, fails |-> 0,
     exhausted |-> 0, execs |-> 0, initial |-> 0, handled |-> 0]

\* the results the model tries for a batch of b tokens: every other token
\* has a uri, from the first or from the second on (one token: it has a uri,
\* or none has)
ResultsOf(b) ==
    { [i \in 1..b |-> Result(i, IF i % 2 = 1 THEN "uri" ELSE "")],
      [i \in 1..b |-> Result(i, IF i % 2 = 0 THEN "uri" ELSE "")] }

JobInit ==
    /\ ledger \in LedgerSizes
    /\ queue = EmptyBag
    /\ running = EmptyBag
    /\ last = NoExec
    /\ stats = [Stats0 EXCEPT !.initial = ledger]
    /\ dec = DecIdle
    /\ store = <<>>
    /\ ref = RefIdle
    /\ swap = SwapIdle

Handler ==
    \/ \E e \in Execs : Get(e)
    \/ \E e \in Execs : \E results \in ResultsOf(e.batch) : ResolveOk(e, results)
    \/ \E e \in Execs : Forward(e)
    \/ \E e \in Execs : CheckLen(e)
    \/ \E e \in Execs : OnCompleted(e)

Runtime ==
    \/ \E m \in Msgs : DelayElapsed(m)
    \/ \E m \in Msgs : Deliver(m)

Faults ==
    \/ \E e \in Execs : \E d \in ThrottleDelays : ResolveThrottled(e, d)
    \/ \E e \in Execs : ResolveFailed(e)
    \/ \E e \in Execs : OnFailed(e)

Next ==
    \/ \E k \in DedupKeys \cup {NoKey} : Submit(k, MaxSubmits)
    \/ Runtime
    \/ Handler
    \/ Faults

Spec == JobInit /\ [][Next]_vars

\* One initial submission, any number of tokens, a resolver that always answers
DrainInit ==
    /\ ledger \in 0..MaxItems
    /\ queue = One(Message(1, 0, NoKey, 0))
    /\ running = EmptyBag
    /\ last = NoExec
    /\ stats = [Stats0 EXCEPT !.initial = ledger, !.submits = 1]
    /\ dec = DecIdle
    /\ store = <<>>
    /\ ref = RefIdle
    /\ swap = SwapIdle

DrainNext == Runtime \/ Handler

SpecDrain == DrainInit /\ [][DrainNext]_vars

\* Many submissions, with and without a job id, and a resolver that always answers
BurstNext ==
    \/ \E k \in DedupKeys \cup {NoKey} : Submit(k, MaxBurst)
    \/ Runtime
    \/ Handler

SpecBurst == JobInit /\ [][BurstNext]_vars

\* A backlog of more than four batches, submissions without a job id, a
\* resolver that throttles and fails a bounded number of times, and workers
\* and a broker that do not stop while there is something to do
LiveInit ==
    /\ ledger \in {0, MaxBacklog}
    /\ queue = EmptyBag
    /\ running = EmptyBag
    /\ last = NoExec
    /\ stats = [Stats0 EXCEPT !.initial = ledger]
    /\ dec = DecIdle
    /\ store = <<>>
    /\ ref = RefIdle
    /\ swap = SwapIdle

LiveNext ==
    \/ Submit(NoKey, MaxLiveSubmits)
    \/ Runtime
    \/ Handler
    \/ Faults

Progress == Runtime \/ Handler \/ \E e \in Execs : OnFailed(e)

SpecLive == LiveInit /\ [][LiveNext]_vars /\ WF_vars(Progress)

(***************************************************************************)
(* extractByTx.  A type string (methodSignature.params, an abiType) is a   *)
(* sequence of tokens: "(", ")", ",", "[]" and the names of the elementary *)
(* types.  A decoded value is a number (a BigNumber), a string (an address *)
(* or a bytes32 in hex), an array (a tuple or a bytes32[]) or undefined.   *)
(* A string is a sequence of atoms, each lower case or not.                *)
(***************************************************************************)
Atom(x, lc) == [x |-> x, n |-> 0, lc |-> lc]

\* the decimal digits of n
Decimal(n) == [x |-> "decimal", n |-> n, lc |-> TRUE]

Value(t, n, s, a) == [t |-> t, n |-> n, s |-> s, a |-> a]

Num(n) == Value("num", n, <<>>, <<>>)

Str(s) == Value("str", 0, s, <<>>)

Arr(a) == Value("arr", 0, <<>>, a)

Undef == Value("undef", 0, <<>>, <<>>)

\* in place of a value: the expression threw a TypeError
Thrown == Value("throw", 0, <<>>, <<>>)

\* HashZero of @ethersproject/constants
HashZero == Str(<<Atom("0x0000", TRUE)>>)

\* another bytes32
HashOne == Str(<<Atom("0x0001", TRUE)>>)

\* an address as ethers decodes it (checksummed) and in lower case
Address(name, lc) == Str(<<Atom(name, lc)>>)

\* one character of a string
Char == Str(<<Atom("char", TRUE)>>)

\* String.prototype.includes on a type string, for the keywords the code uses
TokenIncludes(tok, kw) ==
    CASE kw = "(" -> tok = "("
      [] kw = ")" -> tok = ")"
      [] kw = "[" -> tok = "[]"
      [] kw = "]" -> tok = "[]"
      [] kw = "bytes" -> tok = "bytes32"
      [] kw = "bytes32" -> tok = "bytes32"
      [] kw = "int" -> tok = "uint256"
      [] kw = "address" -> tok = "address"
      [] OTHER -> FALSE

Includes(str, kw) == \E i \in 1..Len(str) : TokenIncludes(str[i], kw)

complexKeywords == {"(", ")", "[", "]", "bytes"}

IsPrefix(sep, str) ==
    Len(sep) <= Len(str) /\ SubSeq(str, 1, Len(sep)) = sep

\* String.prototype.split(sep): the pieces of str between occurrences of sep
RECURSIVE SplitFrom(_, _, _)
SplitFrom(str, sep, piece) ==
    IF str = <<>> THEN <<piece>>
    ELSE IF IsPrefix(sep, str)
         THEN <<piece>> \o SplitFrom(SubSeq(str, Len(sep) + 1, Len(str)), sep, <<>>)
         ELSE SplitFrom(Tail(str), sep, Append(piece, Head(str)))

Split(str, sep) == SplitFrom(str, sep, <<>>)

\* String.prototype.replace("(", ""): without its first "("
RECURSIVE RemoveFirstParen(_)
RemoveFirstParen(str) ==
    IF str = <<>> THEN <<>>
    ELSE IF Head(str) = "(" THEN Tail(str)
    ELSE <<Head(str)>> \o RemoveFirstParen(Tail(str))

\* value[i], i from 0
Index(v, i) ==
    CASE v.t = "arr" -> IF i < Len(v.a) THEN v.a[i + 1] ELSE Undef
      [] v.t = "str" -> Char
      [] v.t = "num" -> Undef
      [] OTHER -> Thrown

\* Object.prototype.toString of a value, as atoms; an array joins its elements
RECURSIVE ToStringAtoms(_)
RECURSIVE JoinAtoms(_)
JoinAtoms(a) ==
    IF a = <<>> THEN <<>>
    ELSE IF Len(a) = 1 THEN ToStringAtoms(a[1])
    ELSE ToStringAtoms(a[1]) \o <<Atom(",", TRUE)>> \o JoinAtoms(Tail(a))

ToStringAtoms(v) ==
    CASE v.t = "str" -> v.s
      [] v.t = "num" -> <<Decimal(v.n)>>
      [] v.t = "arr" -> JoinAtoms(v.a)
      [] OTHER -> <<>>

\* String.prototype.toLowerCase
toLowerCase(s) == [i \in 1..Len(s) |-> [s[i] EXCEPT !.lc = TRUE]]

\* value == HashZero (loose equality: an object is compared by its string)
EqHashZero(v) ==
    IF v.t = "undef" THEN FALSE ELSE ToStringAtoms(v) = HashZero.s

\* variant: a sub-field that is neither a bytes32 nor a bytes32[] passes
FieldOkOthersPass(param, value) ==
    IF param = <<"bytes32">> THEN IF EqHashZero(value) THEN "true" ELSE "false"
    ELSE IF param = <<"bytes32", "[]">>
         THEN CASE value.t = "undef" -> "throw"
                [] value.t = "arr" -> IF Len(value.a) = 0 THEN "true" ELSE "false"
                [] OTHER -> "false"
    ELSE "true"

\* the callback of subParams.every; undefined (no return) counts as false
FieldOk(param, value) ==
    IF param = <<"bytes32">> THEN IF EqHashZero(value) THEN "true" ELSE "false"
    ELSE IF param = <<"bytes32", "[]">>
         THEN CASE value.t = "undef" -> "throw"
                [] value.t = "arr" -> IF Len(value.a) = 0 THEN "true" ELSE "false"
                [] OTHER -> "false"
    ELSE "false"

\* subParams.every(...) from sub-field i on: stops at the first false
RECURSIVE Every(_, _, _)
Every(subParams, decodedValue, i) ==
    IF i >= Len(subParams) THEN "true"
    ELSE IF Index(decodedValue, i) = Thrown THEN "throw"
    ELSE LET r == FieldOk(subParams[i + 1], Index(decodedValue, i))
         IN  IF r = "true" THEN Every(subParams, decodedValue, i + 1) ELSE r

DecodedAt(decodedCalldata, i) ==
    IF i < Len(decodedCalldata) THEN decodedCalldata[i + 1] ELSE Undef

\* the body of the forEach over params.split("),"), from segment i on:
\* the value of allBytesIsEmpty after it, or "throw"
RECURSIVE CheckSegments(_, _, _, _)
CheckSegments(segments, decodedCalldata, i, allBytesIsEmpty) ==
    IF i >= Len(segments) THEN allBytesIsEmpty
    ELSE LET abiType == segments[i + 1]
             complexParam == \E c \in complexKeywords : Includes(abiType, c)
         IN  IF complexParam /\ Includes(abiType, "bytes32")
             THEN LET r == Every(Split(RemoveFirstParen(abiType), <<",">>),
                                 DecodedAt(decodedCalldata, i), 0)
                  IN  IF r = "throw" THEN "throw"
                      ELSE CheckSegments(segments, decodedCalldata, i + 1, r)
             ELSE CheckSegments(segments, decodedCalldata, i + 1, allBytesIsEmpty)

\* rawParams when the complex arguments passed: split on ")," and close again
RawComplex(params) ==
    LET parts == Split(params, <<")", ",">>)
    IN  [i \in 1..Len(parts) |->
            IF i < Len(parts) THEN Append(parts[i], ")") ELSE parts[i]]

\* bn(value), BigNumber.from(value), throws unless the value is a number, a
\* string of digits or an array of bytes; the empty array is the only array
\* of bytes among the decoded values and reads as 0
bnThrows(v) == v.t \notin {"num", "str"} /\ v # Arr(<<>>)

\* the number an address or a bytes32 other than HashZero reads as
BigValue == 1000 * 1000 * 1000

bn(v) ==
    CASE v.t = "num" -> v.n
      [] v.t = "str" -> IF v = HashZero THEN 0 ELSE BigValue
      [] OTHER -> 0

AbiParam(kind, abiType, abiValue) ==
    [kind |-> kind, abiType |-> abiType, abiValue |-> abiValue]

\* no abiValue
NoValue == <<Atom("absent", TRUE)>>

\* in place of an AbiParam: the callback threw
ThrownParam == AbiParam("throw", <<>>, NoValue)

\* the body of rawParams.forEach for one slot: the AbiParam pushed, or "throw"
Classify(abiType, decodedValue, collection, from, amountMinted) ==
    IF Includes(abiType, "int") /\ bnThrows(decodedValue) THEN ThrownParam
    ELSE IF Includes(abiType, "int") /\ bn(decodedValue) = amountMinted
    THEN AbiParam("quantity", abiType, NoValue)
    ELSE IF Includes(abiType, "address") /\ decodedValue.t # "str" THEN ThrownParam
    ELSE IF Includes(abiType, "address") /\ Str(toLowerCase(decodedValue.s)) = collection
    THEN AbiParam("contract", abiType, NoValue)
    ELSE IF Includes(abiType, "address") /\ Str(toLowerCase(decodedValue.s)) = from
    THEN AbiParam("recipient", abiType, NoValue)
    ELSE IF decodedValue.t = "undef" THEN ThrownParam
    ELSE AbiParam("unknown", abiType, toLowerCase(ToStringAtoms(decodedValue)))

\* rawParams.forEach inside try/catch, from slot i on: an exception ends the
\* loop and leaves the params pushed so far
RECURSIVE ClassifyFrom(_, _, _, _, _, _, _)
ClassifyFrom(rawParams, decodedCalldata, i, params, collection, from, amountMinted) ==
    IF i >= Len(rawParams) THEN params
    ELSE LET p == Classify(rawParams[i + 1], DecodedAt(decodedCalldata, i),
                           collection, from, amountMinted)
         IN  IF p = ThrownParam THEN params
             ELSE ClassifyFrom(rawParams, decodedCalldata, i + 1, Append(params, p),
                               collection, from, amountMinted)

\* the slot, from slot i on, whose classification throws; NoSlot when none does
NoSlot == 0 - 1

RECURSIVE ThrowingSlot(_, _, _, _, _, _)
ThrowingSlot(slots, decodedCalldata, i, collection, from, amountMinted) ==
    IF i >= Len(slots) THEN NoSlot
    ELSE IF Classify(slots[i + 1], DecodedAt(decodedCalldata, i),
                     collection, from, amountMinted) = ThrownParam
         THEN i
         ELSE ThrowingSlot(slots, decodedCalldata, i + 1, collection, from, amountMinted)

CollectionMint(collection, signature, params) ==
    [collection |-> collection, contract |-> collection, stage |-> "public-sale",
     kind |-> "public", status |-> "open", standard |-> "unknown",
     signature |-> signature, params |-> params]

\* tx.data.length: "0x", the 8 digits of the selector, 64 digits per word
DataLength(tx) == 10 + 64 * tx.words

\* what getMethodSignature answers: nothing, or a signature with the types
\* of its parameters and the decoded calldata
NotFound == [found |-> FALSE, signature |-> "", params |-> <<>>, decodedCalldata |-> <<>>]

MethodSignature(signature, params, decodedCalldata) ==
    [found |-> TRUE, signature |-> signature, params |-> params,
     decodedCalldata |-> decodedCalldata]

\* how a call ends: the list it returns, or an exception
Returned(mints) == [threw |-> FALSE, mints |-> mints]

Threw == [threw |-> TRUE, mints |-> <<>>]

hasComplexArguments(methodSignature) ==
    \E x \in complexKeywords : Includes(methodSignature.params, x)

\* allBytesIsEmpty after the check of the complex arguments: "true", "false",
\* or "throw" when the check threw
allBytesIsEmpty(methodSignature) ==
    IF hasComplexArguments(methodSignature)
    THEN CheckSegments(Split(methodSignature.params, <<")", ",">>),
                       methodSignature.decodedCalldata, 0, "false")
    ELSE "false"

\* variant: the parameters are split on every comma, also after the complex
\* arguments passed
rawParamsEveryComma(methodSignature) == Split(methodSignature.params, <<",">>)

rawParams(methodSignature) ==
    IF hasComplexArguments(methodSignature) /\ allBytesIsEmpty(methodSignature) = "true"
    THEN RawComplex(methodSignature.params)
    ELSE Split(methodSignature.params, <<",">>)

\* variant: without the try and catch around the classification
ExtractKnownUncaught(collection, tx, amountMinted, methodSignature) ==
    LET params == methodSignature.params
    IN  IF allBytesIsEmpty(methodSignature) = "throw" THEN Threw
        ELSE IF hasComplexArguments(methodSignature)
                /\ allBytesIsEmpty(methodSignature) # "true" THEN Returned(<<>>)
        ELSE IF Len(params) > 0
                /\ ThrowingSlot(rawParams(methodSignature), methodSignature.decodedCalldata,
                                0, collection, tx.from, amountMinted) # NoSlot
        THEN Threw
        ELSE Returned(<<CollectionMint(collection, methodSignature.signature,
                 IF Len(params) > 0
                 THEN ClassifyFrom(rawParams(methodSignature),
                                   methodSignature.decodedCalldata, 0, <<>>,
                                   collection, tx.from, amountMinted)
                 ELSE <<>>)>>)

\* the part of extractByTx after the method signature was found
ExtractKnown(collection, tx, amountMinted, methodSignature) ==
    LET params == methodSignature.params
    IN  IF allBytesIsEmpty(methodSignature) = "throw" THEN Threw
        ELSE IF hasComplexArguments(methodSignature)
                /\ allBytesIsEmpty(methodSignature) # "true" THEN Returned(<<>>)
        ELSE Returned(<<CollectionMint(collection, methodSignature.signature,
                 IF Len(params) > 0
                 THEN ClassifyFrom(rawParams(methodSignature),
                                   methodSignature.decodedCalldata, 0, <<>>,
                                   collection, tx.from, amountMinted)
                 ELSE <<>>)>>)

\* variant: the method signature is looked up before the length is checked
extractByTxSignatureFirst(collection, tx, amountMinted, methodSignature) ==
    IF ~methodSignature.found THEN Returned(<<>>)
    ELSE IF DataLength(tx) = 10
    THEN Returned(<<CollectionMint(collection, tx.data, <<>>)>>)
    ELSE ExtractKnown(collection, tx, amountMinted, methodSignature)

\* variant: a missing method signature is an error
extractByTxSignatureRequired(collection, tx, amountMinted, methodSignature) ==
    IF DataLength(tx) = 10 THEN Returned(<<CollectionMint(collection, tx.data, <<>>)>>)
    ELSE IF ~methodSignature.found THEN Threw
    ELSE ExtractKnown(collection, tx, amountMinted, methodSignature)

\* extractByTx(collection, tx, pricePerAmountMinted, amountMinted), given what
\* getMethodSignature(tx.data) answers: the list returned, or "throw"
extractByTx(collection, tx, amountMinted, methodSignature) ==
    IF DataLength(tx) = 10 THEN Returned(<<CollectionMint(collection, tx.data, <<>>)>>)
    ELSE IF ~methodSignature.found THEN Returned(<<>>)
    ELSE ExtractKnown(collection, tx, amountMinted, methodSignature)

(***************************************************************************)
(* The calls of extractByTx the model makes.                               *)
(***************************************************************************)
\* the top-level arguments of a signature
MaxArgs == 3

\* the amount minted by the transaction
AmountMinted == 5

Elementary(type, value) ==
    [tuple |-> FALSE, type |-> type, value |-> value, fields |-> <<>>]

ElementaryArgs ==
    { Elementary(<<"uint256">>, Num(5)), Elementary(<<"uint256">>, Num(7)),
      Elementary(<<"address">>, Address("collection", FALSE)),
      Elementary(<<"address">>, Address("sender", FALSE)),
      Elementary(<<"bytes32">>, HashZero),
      Elementary(<<"bytes32", "[]">>, Arr(<<>>)) }

\* the sub-fields of a tuple
Fields ==
    { Elementary(<<"bytes32">>, HashZero), Elementary(<<"bytes32">>, HashOne),
      Elementary(<<"bytes32", "[]">>, Arr(<<>>)),
      Elementary(<<"bytes32", "[]">>, Arr(<<HashZero>>)) }

\* the types of args, joined by ","
RECURSIVE JoinTypes(_)
JoinTypes(args) ==
    IF args = <<>> THEN <<>>
    ELSE IF Len(args) = 1 THEN args[1].type
    ELSE args[1].type \o <<",">> \o JoinTypes(Tail(args))

Tuple(fields) ==
    [tuple |-> TRUE, type |-> <<"(">> \o JoinTypes(fields) \o <<")">>,
     value |-> Arr([i \in 1..Len(fields) |-> fields[i].value]), fields |-> fields]

\* tuples with a sub-field that is neither a bytes32 nor a bytes32[], next
\* to a zero bytes32 and an empty bytes32[]
MixedTuples ==
    { Tuple(<<Elementary(<<"bytes32">>, HashZero),
              Elementary(<<"uint256">>, Num(5))>>),
      Tuple(<<Elementary(<<"bytes32">>, HashZero),
              Elementary(<<"bytes32", "[]">>, Arr(<<>>)),
              Elementary(<<"address">>, Address("sender", FALSE))>>) }

\* tuples of one sub-field, and of a bytes32 and a bytes32[] in either order
TupleArgs ==
    { Tuple(<<f>>) : f \in Fields }
    \cup { Tuple(p) : p \in { q \in Fields \X Fields : q[1].type # q[2].type } }
    \cup MixedTuples

Args == ElementaryArgs \cup TupleArgs

\* the signatures of up to max arguments
ArgLists(max) == UNION { [1..n -> Args] : n \in 0..max }

\* the signature the resolver answers for a call with these arguments
SignatureOf(args) ==
    MethodSignature("mint",
        JoinTypes(args), [i \in 1..Len(args) |-> args[i].value])

\* a transaction: its calldata is the selector and words words of arguments
TransactionFrom(words, from) == [data |-> "0xselector", words |-> words, from |-> from]

\* a transaction of the sender, the address in lower case as the indexer
\* stores it
Transaction(words) == TransactionFrom(words, Address("sender", TRUE))

\* the words of calldata after the selector: none for a bare selector
Words(bare, args) == IF bare THEN 0 ELSE IF args = <<>> THEN 1 ELSE Len(args)

\* a call of extractByTx: the calldata is the bare selector or carries
\* arguments, and the resolver knows a signature for it or not
DecCall(bare, known, args) ==
    [pc |-> "called", collection |-> Address("collection", TRUE),
     tx |-> Transaction(Words(bare, args)), amountMinted |-> AmountMinted,
     args |-> args, methodSignature |-> IF known THEN SignatureOf(args) ELSE NotFound,
     result |-> Returned(<<>>)]

\* the collection as the caller supplies it, and the sender of the
\* transaction: in lower case or checksummed; the sender may be the
\* collection's own address
Collections == { Address("collection", lc) : lc \in BOOLEAN }

Senders == { Address(name, lc) : name \in {"sender", "collection"}, lc \in BOOLEAN }

\* a call with a known signature of elementary arguments, for a collection
\* and a sender
DecCallWith(collection, from, args) ==
    [pc |-> "called", collection |-> collection,
     tx |-> TransactionFrom(Len(args), from), amountMinted |-> AmountMinted,
     args |-> args, methodSignature |-> SignatureOf(args),
     result |-> Returned(<<>>)]

\* the signatures of 1 to max elementary arguments
ElementaryLists(max) == UNION { [1..n -> ElementaryArgs] : n \in 1..max }

\* every signature for calldata with arguments the resolver knows; no or one
\* argument for a bare selector and for calldata the resolver does not know
DecCalls(max) ==
    { DecCall(FALSE, TRUE, args) : args \in ArgLists(max) }
    \cup { DecCall(TRUE, known, args) : known \in BOOLEAN, args \in ArgLists(1) }
    \cup { DecCall(FALSE, FALSE, args) : args \in ArgLists(1) }

\* every signature of elementary arguments for every collection and sender
DecCallsWith(max) ==
    { DecCallWith(c, f, args) :
        c \in Collections, f \in Senders, args \in ElementaryLists(max) }

DecInit ==
    /\ \/ dec \in DecCalls(MaxArgs)
       \/ dec \in DecCallsWith(MaxArgs)
    /\ ledger = 0
    /\ queue = EmptyBag
    /\ running = EmptyBag
    /\ last = NoExec
    /\ stats = Stats0
    /\ store = <<>>
    /\ ref = RefIdle
    /\ swap = SwapIdle

\* extractByTx runs to its end
Extract ==
    /\ dec.pc = "called"
    /\ dec' = [dec EXCEPT !.pc = "returned",
                  !.result = extractByTx(dec.collection, dec.tx, dec.amountMinted,
                                         dec.methodSignature)]
    /\ UNCHANGED <<jobVars, store, ref, swap>>

SpecDecoder == DecInit /\ [][Extract]_vars

(***************************************************************************)
(* refreshByCollection.  getCollectionMints and                            *)
(* simulateAndUpsertCollectionMint are collaborators: the first answers    *)
(* the stored configurations of a collection with a standard, the second   *)
(* simulates one configuration and replaces the stored one, open or        *)
(* closed, and returns.                                                    *)
(***************************************************************************)
\* the configurations the store holds at most
MaxMints == 3

STANDARD == "unknown"

\* a stored configuration; collection and stage are its key
StoredMint(collection, stage, standard, status) ==
    [collection |-> collection, stage |-> stage, standard |-> standard,
     status |-> status]

RefCollections == {"c1", "c2"}

Standards == {STANDARD, "seadrop"}

Statuses == {"open", "closed"}

\* the stores of n configurations, the i-th of stage i
Stores(n) ==
    { [i \in 1..n |-> StoredMint(f[i][1], i, f[i][2], f[i][3])] :
        f \in [1..n -> RefCollections \X Standards \X Statuses] }

Matches(mint, collection, standard) ==
    mint.collection = collection /\ mint.standard = standard

\* getCollectionMints(collection, { standard })
getCollectionMints(collection, standard) ==
    SelectSeq(store, LAMBDA mint : Matches(mint, collection, standard))

\* the store after the upsert of mint with a status: the configuration of the
\* same collection and stage is replaced
Upsert(mint, status) ==
    [i \in 1..Len(store) |->
        IF store[i].collection = mint.collection /\ store[i].stage = mint.stage
        THEN [mint EXCEPT !.status = status] ELSE store[i]]

\* variant: the call is made and not awaited, the loop goes on
NotAwaited == "loop"

\* await simulateAndUpsertCollectionMint(...): the loop waits for the call
Awaited == "awaiting"

\* refreshByCollection(collection) is called and loads the configurations
RefreshCall(collection) ==
    /\ ref.pc = "idle"
    /\ ref' = [pc |-> "loop", collection |-> collection, before |-> store,
               existingCollectionMints |-> getCollectionMints(collection, STANDARD),
               next |-> 0, inflight |-> {}, calls |-> <<>>, upserts |-> 0]
    /\ UNCHANGED <<jobVars, dec, store, swap>>

\* the loop calls simulateAndUpsertCollectionMint for the next configuration
SimulateCall ==
    /\ ref.pc = "loop"
    /\ ref.next < Len(ref.existingCollectionMints)
    /\ ref' = [ref EXCEPT !.pc = Awaited,
                          !.next = @ + 1,
                          !.inflight = @ \cup {ref.next + 1},
                          !.calls = Append(@, ref.existingCollectionMints[ref.next + 1])]
    /\ UNCHANGED <<jobVars, dec, store, swap>>

\* a call of simulateAndUpsertCollectionMint ends: the configuration is
\* stored again, open when the simulation succeeded and closed otherwise
SimulateReturn(k, status) ==
    /\ ref.pc \in {"loop", "awaiting", "done"}
    /\ k \in ref.inflight
    /\ store' = Upsert(ref.existingCollectionMints[k], status)
    /\ ref' = [ref EXCEPT !.pc = IF @ = "awaiting" THEN "loop" ELSE @,
                          !.inflight = @ \ {k},
                          !.upserts = @ + 1]
    /\ UNCHANGED <<jobVars, dec, swap>>

\* the loop is over and refreshByCollection returns
RefreshReturn ==
    /\ ref.pc = "loop"
    /\ ref.next = Len(ref.existingCollectionMints)
    /\ ref' = [ref EXCEPT !.pc = "done"]
    /\ UNCHANGED <<jobVars, dec, store, swap>>

RefInit ==
    /\ store \in UNION { Stores(n) : n \in 0..MaxMints }
    /\ ref = RefIdle
    /\ swap = SwapIdle
    /\ dec = DecIdle
    /\ ledger = 0
    /\ queue = EmptyBag
    /\ running = EmptyBag
    /\ last = NoExec
    /\ stats = Stats0

RefNext ==
    \/ \E c \in RefCollections : RefreshCall(c)
    \/ SimulateCall
    \/ \E k \in 1..MaxMints : \E status \in Statuses : SimulateReturn(k, status)
    \/ RefreshReturn

SpecRefresh == RefInit /\ [][RefNext]_vars

(***************************************************************************)
(* Properties of the job.                                                  *)
(***************************************************************************)
Quiet == queue = EmptyBag /\ running = EmptyBag

CeilDiv(n, d) == (n + d - 1) \div d

SentSet(x) == BagToSet(x.sent)

\* C1 (under SpecDrain: one submission, no throttling, no failure, no new
\* tokens): from N > 0 tokens the job runs ceil(N/50) executions; the k-th
\* pulls min(50, N - 50(k-1)) tokens; every execution but the last returns a
\* positive value and re-submits the job once, the last returns no positive
\* value and re-submits nothing.
DrainLoop ==
    stats.initial > 0 =>
        /\ stats.execs <= CeilDiv(stats.initial, 50)
        /\ Quiet => stats.execs = CeilDiv(stats.initial, 50)
        /\ last.pc = "done" =>
            /\ last.batch = Min(50, stats.initial - 50 * (stats.execs - 1))
            /\ IF stats.execs < CeilDiv(stats.initial, 50)
               THEN last.ret > 0 /\ BagCardinality(last.sent) = 1
               ELSE ~Truthy(last.ret) /\ last.sent = EmptyBag /\ Quiet

\* C1 witness: 120 tokens were drained by 3 executions, the last pulling 20
DrainLoopWitness ==
    /\ stats.initial = 120 /\ Quiet /\ ledger = 0
    /\ stats.execs = 3 /\ last.batch = 20 /\ last.ret = 0

\* C2: an execution the resolver throttled with delay D has re-submitted the
\* job exactly once, with delay D and an attempt number not above its own,
\* and onCompleted adds no second re-submission.
ThrottledOnce(x, attempt) ==
    x.outcome = "throttled" =>
        /\ BagCardinality(x.sent) = 1
        /\ \A m \in SentSet(x) : m.delay = x.delay /\ m.attempt <= attempt

ThrottlePath ==
    /\ \A e \in Execs : ThrottledOnce(e, e.msg.attempt) /\
                         (e.outcome = "throttled" => ~Truthy(e.ret))
    /\ last.pc = "done" => ThrottledOnce(last, last.attempt)

\* C2 witness: an execution throttled with delay 5000 has ended
ThrottlePathWitness ==
    last.pc = "done" /\ last.outcome = "throttled" /\ last.delay = 5000

\* C3 as stated: a throttled execution leaves the list as it found it.  Here
\* for the first execution of a single submission, before anything else ran.
ThrottleKeepsLedger ==
    (/\ last.pc = "done" /\ last.outcome = "throttled"
     /\ stats.submits = 1 /\ stats.execs = 1 /\ stats.fails = 0
     /\ running = EmptyBag) => ledger = stats.initial

\* C4 as stated: a positive continuation is re-submitted with delay zero
ContinuationImmediate ==
    (last.pc = "done" /\ last.outcome = "ok" /\ last.ret > 0) =>
        /\ BagCardinality(last.sent) = 1
        /\ \A m \in SentSet(last) : m.delay = 0

\* C4 as amended (under SpecDrain, where nothing else touches the list): after
\* a successful batch process returns 1 exactly when the list still holds
\* tokens, and onCompleted then re-submits the job once with a delay of
\* 1000 ms (the returned value times 1000); it re-submits nothing otherwise.
ContinuationDelayed ==
    /\ \A e \in Execs : (e.pc = "completed" /\ e.outcome = "ok") =>
           e.ret = IF ledger > 0 THEN 1 ELSE 0
    /\ (last.pc = "done" /\ last.outcome = "ok") =>
           IF last.ret > 0
           THEN /\ BagCardinality(last.sent) = 1
                /\ \A m \in SentSet(last) : m.delay = 1000
           ELSE last.sent = EmptyBag

\* C4 witness: an execution returned 1 and the job was re-submitted
ContinuationWitness ==
    last.pc = "done" /\ last.outcome = "ok" /\ last.ret = 1 /\ ledger > 0

\* C5: a message is executed once per attempt number, attempts 1 to 4 at most
\* (maxRetries + 1); a re-submission after throttling is a new message.
RetryBound ==
    /\ \A m \in Msgs : m.attempt \in 1..4 /\ m.execs = m.attempt - 1
    /\ \A e \in Execs : e.msg.attempt \in 1..4 /\ e.msg.execs = e.msg.attempt

\* C5 witness: a fourth attempt failed and the job was given up
RetryBoundWitness ==
    /\ stats.exhausted > 0
    /\ last.pc = "threw" /\ last.attempt = 4 /\ last.sent = EmptyBag

\* C6: the retries of OnchainMetadataProcessUriJob are delayed by 20000,
\* 40000 and 80000 ms (20000 * 2^(a-1) after attempt a), and the failure of
\* attempt 4 is terminal.
RetryDelayOf(a) == <<20000, 40000, 80000>>[a]

RetrySchedule ==
    /\ \A m \in Msgs : m.attempt > 1 =>
           /\ m.attempt <= 4
           /\ m.delay = RetryDelayOf(m.attempt - 1)
           /\ m.delay = backoffDelay * Pow2(m.attempt - 2)
    /\ last.pc = "threw" =>
           IF last.attempt <= 3
           THEN /\ BagCardinality(last.sent) = 1
                /\ \A m \in SentSet(last) :
                       /\ m.attempt = last.attempt + 1
                       /\ m.delay = RetryDelayOf(last.attempt)
           ELSE last.sent = EmptyBag

\* C6 witness: the third attempt failed and its retry waits 80000 ms
RetryScheduleWitness ==
    /\ last.pc = "threw" /\ last.attempt = 3
    /\ \E m \in Msgs : m.attempt = 4 /\ m.delay = 80000 /\ ~m.ready

\* C7: at most 3 executions of the handler are in progress
ConcurrencyCeiling == BagCardinality(running) <= 3

\* C7 witness: 3 executions are in progress and a deliverable message waits
ConcurrencyWitness ==
    BagCardinality(running) = 3 /\ \E m \in Msgs : m.ready

\* C8: of a job id at most one message is pending or executing, however often
\* it is submitted
KeyCopies(k) ==
    BagCardinality([m \in {x \in Msgs : x.key = k} |-> CopiesIn(m, queue)])
    + BagCardinality([e \in {x \in Execs : x.msg.key = k} |-> CopiesIn(e, running)])

IdempotentSubmission == \A k \in DedupKeys : KeyCopies(k) <= 1

\* C8 witness: a second submission of a job id was dropped while the first
\* was executing
IdempotentWitness ==
    stats.dropped > 0 /\ \E e \in Execs : e.msg.key \in DedupKeys

(***************************************************************************)
(* Properties of extractByTx.                                              *)
(***************************************************************************)
DecReturned == dec.pc = "returned"

\* C9: for calldata that is the bare selector extractByTx returns exactly one
\* CollectionMint with an empty parameter list, whether the signature
\* resolver knows the selector or not.
BareSelector ==
    (DecReturned /\ DataLength(dec.tx) = 10) =>
        /\ ~dec.result.threw
        /\ Len(dec.result.mints) = 1
        /\ dec.result.mints[1].params = <<>>
        /\ dec.result.mints[1] = CollectionMint(dec.collection, dec.tx.data, <<>>)

\* C9 witness: a bare selector the resolver does not know gave one CollectionMint
BareSelectorWitness ==
    /\ DecReturned /\ DataLength(dec.tx) = 10 /\ ~dec.methodSignature.found
    /\ Len(dec.result.mints) = 1

\* a tuple with a bytes32 sub-field that is not zero or a bytes32[] sub-field
\* that is not empty
BadTuple(arg) ==
    /\ arg.tuple
    /\ \E i \in 1..Len(arg.fields) :
           \/ arg.fields[i].type = <<"bytes32">> /\ arg.fields[i].value # HashZero
           \/ arg.fields[i].type = <<"bytes32", "[]">> /\ arg.fields[i].value # Arr(<<>>)

\* C10 as stated: when any tuple of the signature has a bytes32 sub-field that
\* is not zero or a bytes32[] sub-field that is not empty, extractByTx returns
\* no configuration.
ComplexRejected ==
    (/\ DecReturned /\ DataLength(dec.tx) # 10 /\ dec.methodSignature.found
     /\ \E i \in 1..Len(dec.args) : BadTuple(dec.args[i]))
        => dec.result.mints = <<>>

\* a call with arguments whose signature the resolver knows has returned
DecKnown == DecReturned /\ DataLength(dec.tx) # 10 /\ dec.methodSignature.found

\* it returned a configuration
DecAccepted == DecKnown /\ ~dec.result.threw /\ Len(dec.result.mints) = 1

DecParams == dec.result.mints[1].params

DecDecoded == dec.methodSignature.decodedCalldata

\* the slots the classification went through
DecSlots == rawParams(dec.methodSignature)

\* the slot whose classification threw, NoSlot when the loop ran to its end
\* or did not run
DecThrowingSlot ==
    IF Len(dec.methodSignature.params) = 0 THEN NoSlot
    ELSE ThrowingSlot(DecSlots, DecDecoded, 0, dec.collection, dec.tx.from,
                      dec.amountMinted)

\* every argument is a uint256 or an address
SimpleOnly(args) ==
    \A i \in 1..Len(args) : args[i].type \in {<<"uint256">>, <<"address">>}

\* (bytes32,bytes32[]) with a zero bytes32 and an empty bytes32[]
EmptyTuple ==
    Tuple(<<Elementary(<<"bytes32">>, HashZero),
            Elementary(<<"bytes32", "[]">>, Arr(<<>>))>>)

ComplexButEmptyCall ==
    /\ DecKnown
    /\ dec.args = <<EmptyTuple, Elementary(<<"uint256">>, Num(dec.amountMinted))>>

\* C11: for the signature (bytes32,bytes32[]),uint256 with a zero bytes32, an
\* empty bytes32[] and a uint256 equal to the amount minted, extractByTx
\* returns one configuration with two parameters: the tuple as one slot,
\* tagged unknown, then the uint256 tagged quantity.
ComplexButEmpty ==
    ComplexButEmptyCall =>
        /\ ~dec.result.threw
        /\ Len(dec.result.mints) = 1
        /\ Len(DecParams) = 2
        /\ DecParams[1].kind = "unknown"
        /\ DecParams[1].abiType = <<"(", "bytes32", ",", "bytes32", "[]", ")">>
        /\ DecParams[2] = AbiParam("quantity", <<"uint256">>, NoValue)

\* C11 witness: that call returned a configuration of two parameters
ComplexButEmptyWitness ==
    ComplexButEmptyCall /\ DecAccepted /\ Len(DecParams) = 2

\* a signature of tuples that hold a zero bytes32, at most an empty
\* bytes32[] and a sub-field of another type, and of uint256 and address
\* arguments around them
MixedCall ==
    /\ DecKnown
    /\ \E i \in 1..Len(dec.args) : dec.args[i] \in MixedTuples
    /\ \A i \in 1..Len(dec.args) :
           dec.args[i] \in MixedTuples
           \/ dec.args[i].type \in {<<"uint256">>, <<"address">>}

SameAddress(v, known) == v.t = "str" /\ toLowerCase(v.s) = toLowerCase(known.s)

\* the tag the stated precedence gives a top-level argument
SlotKind(arg, collection, from, amount) ==
    IF arg.type = <<"uint256">> /\ arg.value = Num(amount) THEN "quantity"
    ELSE IF arg.type = <<"address">> /\ SameAddress(arg.value, collection) THEN "contract"
    ELSE IF arg.type = <<"address">> /\ SameAddress(arg.value, from) THEN "recipient"
    ELSE "unknown"

\* the collection and the sender were supplied in lower case
LowerCaseKnown ==
    /\ dec.collection.s = toLowerCase(dec.collection.s)
    /\ dec.tx.from.s = toLowerCase(dec.tx.from.s)

\* C13 as stated: every top-level slot of an accepted call is tagged by the
\* precedence quantity, contract, recipient, unknown.  Here with the
\* collection and the sender supplied in lower case.
PrecedencePerSlot ==
    (DecAccepted /\ LowerCaseKnown) =>
        \A i \in 1..Len(dec.args) :
            /\ i <= Len(DecParams)
            /\ DecParams[i].kind =
                   SlotKind(dec.args[i], dec.collection, dec.tx.from, dec.amountMinted)

\* C14 as stated: in a signature of uint256 and address arguments an address
\* equal up to letter case to the collection is tagged contract, and one
\* equal up to letter case to the sender (and not to the collection) is tagged
\* recipient, however the collection and the sender are supplied.
CaseInsensitiveMatch ==
    (DecAccepted /\ SimpleOnly(dec.args)) =>
        \A i \in 1..Len(dec.args) :
            dec.args[i].type = <<"address">> =>
                /\ i <= Len(DecParams)
                /\ SameAddress(dec.args[i].value, dec.collection) =>
                       DecParams[i].kind = "contract"
                /\ (/\ ~SameAddress(dec.args[i].value, dec.collection)
                    /\ SameAddress(dec.args[i].value, dec.tx.from)) =>
                       DecParams[i].kind = "recipient"

\* C15 as stated: when the classification of a slot throws, the slots after
\* it are still classified and in the returned list.
LaterSlotsClassified ==
    (/\ DecAccepted
     /\ DecThrowingSlot # NoSlot
     /\ DecThrowingSlot + 1 < Len(DecSlots)) =>
        Len(DecParams) > DecThrowingSlot

\* the signature was found and the check of the complex arguments passed
ShapePassed ==
    /\ DecKnown
    /\ allBytesIsEmpty(dec.methodSignature) # "throw"
    /\ hasComplexArguments(dec.methodSignature) =>
           allBytesIsEmpty(dec.methodSignature) = "true"

\* C16: once the signature is found and the check of the complex arguments
\* passed, extractByTx returns exactly one CollectionMint with stage
\* "public-sale", kind "public" and status "open", whether or not the
\* classification of a slot throws; when the first slot throws the parameter
\* list is empty.
ExceptionNotRejection ==
    ShapePassed =>
        /\ ~dec.result.threw
        /\ Len(dec.result.mints) = 1
        /\ dec.result.mints[1].stage = "public-sale"
        /\ dec.result.mints[1].kind = "public"
        /\ dec.result.mints[1].status = "open"
        /\ DecThrowingSlot = 0 => DecParams = <<>>

\* C16 witness: the classification of the first slot threw and a
\* configuration without parameters was returned
ExceptionWitness ==
    ShapePassed /\ DecThrowingSlot = 0 /\ DecAccepted /\ DecParams = <<>>

\* C17 as stated: without an exception in the classification the returned
\* list has one entry per top-level argument, in order, with its type.
PositionalOutput ==
    (DecAccepted /\ DecThrowingSlot = NoSlot) =>
        /\ Len(DecParams) = Len(dec.args)
        /\ \A i \in 1..Len(dec.args) : DecParams[i].abiType = dec.args[i].type

\* a decoded value stored as it is, a string in lower case
AsDecoded(v) == IF v.t = "str" THEN Str(toLowerCase(v.s)) ELSE v

\* C18 as stated: a parameter has a value exactly when it is unknown, and
\* the value is the decoded argument, in lower case when it is a string.
ValueIsDecoded ==
    DecAccepted =>
        \A i \in 1..Len(DecParams) :
            /\ DecParams[i].abiValue # NoValue <=> DecParams[i].kind = "unknown"
            /\ DecParams[i].kind = "unknown" =>
                   Str(DecParams[i].abiValue) = AsDecoded(DecDecoded[i])

\* C19: for calldata with arguments whose method signature the resolver does
\* not find, extractByTx returns the empty list and throws nothing.
NoSignatureEmpty ==
    (DecReturned /\ DataLength(dec.tx) # 10 /\ ~dec.methodSignature.found) =>
        ~dec.result.threw /\ dec.result.mints = <<>>

\* C19 witness: calldata with one argument and no signature gave the empty list
NoSignatureWitness ==
    /\ DecReturned /\ DataLength(dec.tx) # 10 /\ ~dec.methodSignature.found
    /\ Len(dec.args) = 1 /\ dec.result = Returned(<<>>)

(***************************************************************************)
(* Properties of refreshByCollection.                                      *)
(***************************************************************************)
RefCalled == ref.pc # "idle"

\* C20: refreshByCollection calls simulateAndUpsertCollectionMint once for
\* each stored configuration of the collection with the standard "unknown",
\* in the order loaded, and never while an earlier call is in flight; the
\* store changes only by the upserts of these calls.
RefreshSequential ==
    RefCalled =>
        /\ Cardinality(ref.inflight) <= 1
        /\ ref.existingCollectionMints =
               SelectSeq(ref.before, LAMBDA mint : Matches(mint, ref.collection, "unknown"))
        /\ Len(ref.calls) <= Len(ref.existingCollectionMints)
        /\ ref.calls = SubSeq(ref.existingCollectionMints, 1, Len(ref.calls))
        /\ ref.pc = "done" =>
               ref.calls = ref.existingCollectionMints /\ ref.inflight = {}
        /\ ref.upserts = Len(ref.calls) - Cardinality(ref.inflight)
        /\ Len(store) = Len(ref.before)
        /\ \A i \in 1..Len(store) :
               /\ ~Matches(ref.before[i], ref.collection, "unknown") =>
                      store[i] = ref.before[i]
               /\ ref.upserts = 0 => store[i] = ref.before[i]
               /\ store[i].collection = ref.before[i].collection
               /\ store[i].stage = ref.before[i].stage
               /\ store[i].standard = ref.before[i].standard

\* C20 witness: a refresh of c1 made two calls, one after the other, and
\* returned; the store holds a configuration it did not call for
RefreshWitness ==
    /\ RefCalled /\ ref.pc = "done" /\ ref.collection = "c1"
    /\ Len(ref.calls) = 2 /\ ref.upserts = 2
    /\ Len(store) = 3
    /\ ref.calls[1].stage < ref.calls[2].stage

(***************************************************************************)
(* SwapModule: ethToExactOutput, erc20ToExactOutput, erc20ToExactInput.    *)
(* One call runs its swaps in order: the router call of a swap in a try,   *)
(* the transfers of the swap in the success block, the catch block for a   *)
(* failed router call.  A revert undoes what the call did.                 *)
(***************************************************************************)
\* the swaps of one call at most
MaxSwaps == 2

\* the transfers of one swap at most
MaxTransfers == 2

Functions == {"ethToExactOutput", "erc20ToExactOutput", "erc20ToExactInput"}

\* TransferDetail: what matters of it here is toETH
TransferDetails == [toETH : BOOLEAN]

\* TransferDetail[] transfers
TransferLists == UNION { [1..n -> TransferDetails] : n \in 0..MaxTransfers }

\* struct Swap / struct Sell: the params are the router's, the transfers ours
Swaps == [transfers : TransferLists]

\* Swap[] calldata swaps
SwapLists == UNION { [1..n -> Swaps] : n \in 0..MaxSwaps }

\* what the call did, in order: a router call or a transfer, of swap i
Event(op, i, j, ok) == [op |-> op, i |-> i, j |-> j, ok |-> ok]

\* a swap function has been called
SwapCalled == swap.pc # "idle"

\* revert: the call ends with the error and its transfers are undone
Revert(error) == [swap EXCEPT !.pc = "reverted", !.error = error, !.sent = <<>>]

\* for (uint256 i; i < swapsLength; ): swap i is next, or the loop is over;
\* the ERC20 functions approve the router before its call
LoopAt(c, i) ==
    [c EXCEPT !.i = i, !.j = 0,
              !.pc = IF i > Len(c.swaps) THEN "refund"
                     ELSE IF c.fn = "ethToExactOutput" THEN "router"
                     ELSE "approve"]

\* refundERC20Leftover(refundTo, swaps[0].params.tokenIn): swaps[0] of an
\* empty array
NoFirstSwap(fn, swaps) == fn # "ethToExactOutput" /\ swaps = <<>>

\* a caller calls one of the three functions
SwapCall(fn, swaps, revertIfIncomplete) ==
    /\ swap.pc = "idle"
    /\ swap' =
         IF NoFirstSwap(fn, swaps)
         THEN [pc |-> "reverted", fn |-> fn, swaps |-> swaps,
               revertIfIncomplete |-> revertIfIncomplete, i |-> 0, j |-> 0,
               trace |-> <<>>, sent |-> <<>>, error |-> "Panic"]
         ELSE LoopAt([pc |-> "idle", fn |-> fn, swaps |-> swaps,
                      revertIfIncomplete |-> revertIfIncomplete, i |-> 0, j |-> 0,
                      trace |-> <<>>, sent |-> <<>>, error |-> "none"], 1)
    /\ UNCHANGED <<jobVars, dec, store, ref>>

\* _approveERC20IfNeeded(swap.params.tokenIn, address(SWAP_ROUTER), ...)
Approve(ok) ==
    /\ swap.pc = "approve"
    /\ swap' = IF ok THEN [swap EXCEPT !.pc = "router"] ELSE Revert("Approve")
    /\ UNCHANGED <<jobVars, dec, store, ref>>

\* variant: the catch block always reverts
CatchRevertsAlways(revertIfIncomplete) == TRUE

\* catch { if (revertIfIncomplete) revert UnsuccessfulFill(); }
CatchReverts(revertIfIncomplete) == revertIfIncomplete

\* with the router call of swap i recorded: the success block, or the catch
AfterRouter(c, ok) ==
    IF ok
    THEN IF Len(c.swaps[c.i].transfers) = 0
         THEN LoopAt(c, c.i + 1)
         ELSE [c EXCEPT !.pc = "transfer", !.j = 1]
    ELSE IF CatchReverts(c.revertIfIncomplete)
         THEN [c EXCEPT !.pc = "reverted", !.error = "UnsuccessfulFill", !.sent = <<>>]
         ELSE LoopAt(c, c.i + 1)

\* try SWAP_ROUTER.exactOutputSingle(swap.params) / exactInputSingle: the
\* call succeeds or fails
Router(ok) ==
    /\ swap.pc = "router"
    /\ swap' = AfterRouter(
                  [swap EXCEPT !.trace = Append(@, Event("router", swap.i, 0, ok))], ok)
    /\ UNCHANGED <<jobVars, dec, store, ref>>

\* the transfer of swap.transfers[j]: WETH.withdraw and _sendETH when toETH,
\* _sendERC20 otherwise; a failure in the success block is not caught
Transfer(ok) ==
    /\ swap.pc = "transfer"
    /\ swap' =
         IF ~ok THEN Revert("Transfer")
         ELSE LET c == [swap EXCEPT
                           !.trace = Append(@, Event("transfer", swap.i, swap.j, TRUE)),
                           !.sent = Append(@, [i |-> swap.i, j |-> swap.j,
                                  toETH |-> swap.swaps[swap.i].transfers[swap.j].toETH])]
              IN  IF swap.j < Len(swap.swaps[swap.i].transfers)
                  THEN [c EXCEPT !.j = @ + 1]
                  ELSE LoopAt(c, swap.i + 1)
    /\ UNCHANGED <<jobVars, dec, store, ref>>

\* after the loop: SWAP_ROUTER.refundETH() of ethToExactOutput and the refund
\* of the leftover by the modifier
Refund(ok) ==
    /\ swap.pc = "refund"
    /\ swap' = IF ok THEN [swap EXCEPT !.pc = "returned"] ELSE Revert("Refund")
    /\ UNCHANGED <<jobVars, dec, store, ref>>

SwapInit ==
    /\ ledger = 0
    /\ queue = EmptyBag
    /\ running = EmptyBag
    /\ last = NoExec
    /\ stats = Stats0
    /\ dec = DecIdle
    /\ store = <<>>
    /\ ref = RefIdle
    /\ swap = SwapIdle

SwapNext ==
    \/ /\ ~SwapCalled
       /\ \E fn \in Functions : \E swaps \in SwapLists : \E revertIfIncomplete \in BOOLEAN :
              SwapCall(fn, swaps, revertIfIncomplete)
    \/ \E ok \in BOOLEAN : Approve(ok)
    \/ \E ok \in BOOLEAN : Router(ok)
    \/ \E ok \in BOOLEAN : Transfer(ok)
    \/ \E ok \in BOOLEAN : Refund(ok)

SpecSwap == SwapInit /\ [][SwapNext]_vars

(***************************************************************************)
(* Claims about the batch, its results and the failures of the job.        *)
(***************************************************************************)
\* the results of execution e that have a uri
WithUri(e) == { j \in 1..Len(e.results) : e.results[j].uri # "" }

\* C21: once an execution has made its bulk submission, the submission holds
\* exactly the results that have a uri, each once and in the order the
\* resolver returned them, and no result lacking a uri; the results lacking a
\* uri are dropped and the execution goes on to complete, it does not throw.
\* (A result is identified by its place in the batch, so "in order" is
\* "places increasing", and "exactly" is "as many as have a uri".)
ForwardExact ==
    /\ \A e \in Execs :
        /\ e.bulk.made <=> e.pc \in {"len", "completed"} /\ e.outcome \in {"none", "ok"}
                              /\ e.batch > 0
        /\ e.bulk.made =>
            /\ Len(e.results) = e.batch
            /\ Len(e.bulk.tokens) = Cardinality(WithUri(e))
            /\ \A i \in 1..Len(e.bulk.tokens) :
                   /\ e.bulk.tokens[i].uri # ""
                   /\ e.bulk.tokens[i].tokenId \in 1..Len(e.results)
                   /\ e.results[e.bulk.tokens[i].tokenId] = e.bulk.tokens[i]
                   /\ i > 1 => e.bulk.tokens[i - 1].tokenId < e.bulk.tokens[i].tokenId
    /\ last.bulk.made =>
        /\ last.pc = "done" /\ last.outcome = "ok"
        /\ Len(last.bulk.tokens) <= last.batch
        /\ \A i \in 1..Len(last.bulk.tokens) : last.bulk.tokens[i].uri # ""

\* C21 witness: an execution was given 50 results, every other one lacking a
\* uri, and completed after forwarding the 25 that have one
ForwardExactWitness ==
    /\ last.pc = "done" /\ last.outcome = "ok" /\ last.batch = 50
    /\ Len(last.bulk.tokens) = 25
    /\ last.bulk.tokens[2].tokenId = 3

\* C22: an execution whose batch is empty succeeds at once: it never reaches
\* the resolver, makes no bulk submission, returns no value and re-submits
\* nothing, in process or in onCompleted.
EmptyBatch ==
    /\ \A e \in Execs :
        /\ e.pc \in {"resolve", "forward", "len"} => e.batch > 0
        /\ (e.pc # "get" /\ e.batch = 0) =>
            /\ e.pc = "completed" /\ e.outcome = "empty"
            /\ e.results = <<>> /\ e.bulk = NoBulk
            /\ ~Truthy(e.ret) /\ e.sent = EmptyBag
    /\ (last.pc # "none" /\ last.batch = 0) =>
        /\ last.pc = "done" /\ last.outcome = "empty"
        /\ last.bulk = NoBulk /\ last.sent = EmptyBag

\* C22 witness: the only execution found the list empty, completed, and
\* nothing is pending or running
EmptyBatchWitness ==
    /\ last.pc = "done" /\ last.outcome = "empty" /\ last.batch = 0
    /\ stats.initial = 0 /\ stats.execs = 1 /\ stats.submits = 1 /\ Quiet

\* C23: an execution whose resolver call failed with an error other than
\* throttling ends with that error: it submits nothing downstream and does not
\* re-submit the job; the only message it gives rise to is the retry of the
\* runtime, the next attempt after the backoff delay, and none once the
\* attempts are used up.
FailureUnrecoverable ==
    /\ \A e \in Execs :
        /\ e.outcome = "failed" <=> e.pc = "threw"
        /\ e.outcome = "failed" =>
               e.sent = EmptyBag /\ e.bulk = NoBulk /\ e.ret = Undefined /\ e.batch > 0
    /\ last.outcome = "failed" <=> last.pc = "threw"
    /\ last.pc = "threw" =>
        /\ last.bulk = NoBulk /\ last.ret = Undefined
        /\ IF last.attempt <= maxRetries
           THEN /\ BagCardinality(last.sent) = 1
                /\ \A m \in SentSet(last) :
                       /\ m.attempt = last.attempt + 1
                       /\ m.delay = nextDelay(last.attempt).ms
                       /\ m.delay > 0 /\ ~m.ready
           ELSE last.sent = EmptyBag

\* C23 witness: a first attempt failed and the runtime scheduled the second
FailureWitness ==
    /\ last.pc = "threw" /\ last.attempt = 1 /\ last.batch = 50
    /\ \E m \in Msgs : m.attempt = 2 /\ m.delay = 20000

\* a throttled execution has ended or is under way
Throttled == stats.throttles > 0

\* C24 as stated, for the failures it names (the resolver never throttles):
\* when the job has terminated, every token that was pulled off the list has
\* gone through results.forEach, forwarded or logged as lacking a uri, and
\* the others are still on the list.
NoItemLoss ==
    (Quiet /\ stats.submits > 0 /\ ~Throttled) => stats.handled + ledger = stats.initial

\* an execution re-submits the job at most once, in the throttle branch or in
\* onCompleted and never in both
OneFollowUp ==
    /\ \A e \in Execs :
        /\ BagCardinality(e.sent) <= 1
        /\ e.sent # EmptyBag => ~Truthy(e.ret)
    /\ last.pc = "done" => BagCardinality(last.sent) <= 1

\* C25 as stated: an execution re-submits the job at most once, so the
\* pending and the running instances are never more than the submissions
\* callers made.
NoAmplification ==
    /\ OneFollowUp
    /\ BagCardinality(queue) + BagCardinality(running) <= stats.submits

\* the running executions that have not re-submitted the job
Unsent == [e \in {x \in Execs : x.sent = EmptyBag} |-> running[e]]

\* C25, amended: an execution re-submits the job at most once, so the pending
\* instances and the running ones that have not yet re-submitted the job are
\* never more than the submissions callers made.
NoAmplificationUnsent ==
    /\ OneFollowUp
    /\ BagCardinality(queue) + BagCardinality(Unsent) <= stats.submits

\* C25 witness: two submissions; a throttled execution has re-submitted the
\* job and is still running, so three instances are pending or running
NoAmplificationWitness ==
    /\ stats.submits = 2 /\ stats.throttles = 1
    /\ BagCardinality(queue) + BagCardinality(running) = 3
    /\ BagCardinality(queue) + BagCardinality(Unsent) = 2
    /\ \E e \in Execs : e.outcome = "throttled" /\ BagCardinality(e.sent) = 1

GaveUp == stats.exhausted > 0

FailedRouter == { k \in 1..Len(swap.trace) :
                    swap.trace[k].op = "router" /\ ~swap.trace[k].ok }

\* the call ended in the catch block
Unfilled == swap.pc = "reverted" /\ swap.error = "UnsuccessfulFill"

\* C27: in a call of one of the three swap functions, a transfer of swap i is
\* executed only after the router call of swap i succeeded, and the transfers
\* of a swap are executed in their order; after a failed router call of swap
\* i no transfer of swap i is executed: with revertIfIncomplete the call
\* reverts there with UnsuccessfulFill, its transfers undone, and without it
\* the loop goes on with swap i + 1, so that a call that returns has made the
\* router call of every swap, in order.
SwapLoop ==
    SwapCalled =>
        /\ \A k \in 1..Len(swap.trace) :
              swap.trace[k].op = "transfer" =>
                  /\ k > 1
                  /\ swap.trace[k - 1].i = swap.trace[k].i
                  /\ swap.trace[k - 1].ok
                  /\ IF swap.trace[k].j = 1
                     THEN swap.trace[k - 1].op = "router"
                     ELSE /\ swap.trace[k - 1].op = "transfer"
                          /\ swap.trace[k - 1].j = swap.trace[k].j - 1
                  /\ swap.trace[k].j <= Len(swap.swaps[swap.trace[k].i].transfers)
        /\ \A k \in FailedRouter :
              /\ \A n \in 1..Len(swap.trace) :
                    swap.trace[n].op = "transfer" => swap.trace[n].i # swap.trace[k].i
              /\ IF swap.revertIfIncomplete
                 THEN k = Len(swap.trace) /\ Unfilled /\ swap.sent = <<>>
                 ELSE /\ ~Unfilled
                      /\ k < Len(swap.trace) =>
                            /\ swap.trace[k + 1].op = "router"
                            /\ swap.trace[k + 1].i = swap.trace[k].i + 1
                      /\ k = Len(swap.trace) =>
                            \/ swap.pc \in {"approve", "router"} /\ swap.i = swap.trace[k].i + 1
                            \/ swap.pc \in {"refund", "returned"} /\
                                   swap.trace[k].i = Len(swap.swaps)
                            \/ swap.pc = "reverted"
        /\ Unfilled => swap.revertIfIncomplete /\ Len(swap.trace) \in FailedRouter
        /\ swap.pc \in {"refund", "returned"} =>
              /\ \A i \in 1..Len(swap.swaps) :
                    \E k \in 1..Len(swap.trace) :
                        swap.trace[k].op = "router" /\ swap.trace[k].i = i
              /\ \A i \in 1..Len(swap.swaps) :
                    \A k \in 1..Len(swap.trace) :
                        (swap.trace[k].op = "router" /\ swap.trace[k].i = i /\ swap.trace[k].ok)
                            => \A j \in 1..Len(swap.swaps[i].transfers) :
                                  \E n \in 1..Len(swap.sent) :
                                      swap.sent[n].i = i /\ swap.sent[n].j = j
        /\ \A k, n \in 1..Len(swap.trace) :
              (k < n /\ swap.trace[k].op = "router" /\ swap.trace[n].op = "router")
                  => swap.trace[k].i < swap.trace[n].i

\* C27 witness: a call without revertIfIncomplete returned; the router call
\* of its first swap failed and none of the two transfers of that swap was
\* made, the router call of the second succeeded and its two transfers were
\* made in order
SwapLoopWitness ==
    /\ SwapCalled /\ swap.pc = "returned" /\ ~swap.revertIfIncomplete
    /\ Len(swap.swaps) = 2 /\ Len(swap.swaps[1].transfers) = 2
    /\ swap.trace = <<Event("router", 1, 0, FALSE), Event("router", 2, 0, TRUE),
                      Event("transfer", 2, 1, TRUE), Event("transfer", 2, 2, TRUE)>>

====
